---- MODULE Spec2Model ----
(***************************************************************************)
(* A model of src/utils/balanceCalculator.ts: the balance engine           *)
(* (calculateBalances, calculateParticipantSummary) and the settlement     *)
(* ledger (markBalanceAsSettled and its queries).                          *)
(*                                                                         *)
(* Amounts are JavaScript numbers, i.e. IEEE-754 binary64 values.  They    *)
(* are modelled bit-exactly: a number is a record                          *)
(*     [k |-> "fin" | "inf" | "nan", s |-> sign, m |-> significand,        *)
(*      e |-> exponent]            with value (-1)^s * m * 2^e,            *)
(* the significand being a natural number of up to 53 bits held as a       *)
(* little-endian sequence of 24-bit limbs (TLC's integers are 32 bits).    *)
(* Every arithmetic operator rounds to nearest, ties to even, as the       *)
(* hardware does.                                                          *)
(***************************************************************************)
EXTENDS Integers, Sequences, FiniteSets, TLC

(***************************************************************************)
(* Natural numbers of arbitrary size: little-endian limbs, no leading      *)
(* zero limb; <<>> is 0.                                                   *)
(***************************************************************************)
Base == 2^24

LimbBits == 24

RECURSIVE BNorm(_)
BNorm(a) ==
  IF Len(a) = 0 THEN a
  ELSE IF a[Len(a)] = 0 THEN BNorm(SubSeq(a, 1, Len(a) - 1))
  ELSE a

BLimb(a, i) == IF i >= 1 /\ i <= Len(a) THEN a[i] ELSE 0

BFromInt(n) ==
  IF n = 0 THEN <<>>
  ELSE IF n < Base THEN <<n>>
  ELSE <<n % Base, n \div Base>>

RECURSIVE BAddFrom(_, _, _, _)
BAddFrom(a, b, i, c) ==
  IF i > Len(a) /\ i > Len(b)
  THEN (IF c = 0 THEN <<>> ELSE <<c>>)
  ELSE LET s == BLimb(a, i) + BLimb(b, i) + c
       IN  <<s % Base>> \o BAddFrom(a, b, i + 1, s \div Base)

BAdd(a, b) == BAddFrom(a, b, 1, 0)

\* a - b for a >= b
RECURSIVE BSubFrom(_, _, _, _)
BSubFrom(a, b, i, c) ==
  IF i > Len(a) THEN <<>>
  ELSE LET s == BLimb(a, i) - BLimb(b, i) - c
       IN  IF s < 0 THEN <<s + Base>> \o BSubFrom(a, b, i + 1, 1)
           ELSE <<s>> \o BSubFrom(a, b, i + 1, 0)

BSub(a, b) == BNorm(BSubFrom(a, b, 1, 0))

\* -1, 0, 1 as a < b, a = b, a > b (both normalised)
RECURSIVE BCmpFrom(_, _, _)
BCmpFrom(a, b, i) ==
  IF i = 0 THEN 0
  ELSE IF a[i] < b[i] THEN -1
  ELSE IF a[i] > b[i] THEN 1
  ELSE BCmpFrom(a, b, i - 1)

BCmp(a, b) ==
  IF Len(a) < Len(b) THEN -1
  ELSE IF Len(a) > Len(b) THEN 1
  ELSE BCmpFrom(a, b, Len(a))

RECURSIVE LimbLen(_)
LimbLen(x) == IF x = 0 THEN 0 ELSE 1 + LimbLen(x \div 2)

BBitLen(a) ==
  IF Len(a) = 0 THEN 0 ELSE LimbBits * (Len(a) - 1) + LimbLen(a[Len(a)])

\* a * 2^k
BShl(a, k) ==
  IF Len(a) = 0 \/ k = 0 THEN a
  ELSE LET q == k \div LimbBits
           r == k % LimbBits
           lo == 2^(LimbBits - r)
           sh == [i \in 1..(Len(a) + 1) |->
                    (BLimb(a, i) % lo) * 2^r + (BLimb(a, i - 1) \div lo)]
       IN  BNorm([i \in 1..q |-> 0] \o sh)

\* floor(a / 2^k)
BShr(a, k) ==
  LET q == k \div LimbBits
      r == k % LimbBits
  IN  IF q >= Len(a) THEN <<>>
      ELSE LET d == SubSeq(a, q + 1, Len(a))
           IN  BNorm([i \in 1..Len(d) |->
                        (d[i] \div 2^r) + (BLimb(d, i + 1) % 2^r) * 2^(LimbBits - r)])

\* bit i (bit 0 is the lowest) of a
BBit(a, i) == (BLimb(a, (i \div LimbBits) + 1) \div 2^(i % LimbBits)) % 2

\* a mod 2^k is not 0
BLowNonZero(a, k) == BShl(BShr(a, k), k) # a

BIsOdd(a) == BLimb(a, 1) % 2 = 1

\* a * f for a small factor f (f <= 100)
RECURSIVE BMulFrom(_, _, _, _)
BMulFrom(a, f, i, c) ==
  IF i > Len(a) THEN (IF c = 0 THEN <<>> ELSE <<c>>)
  ELSE LET s == a[i] * f + c
       IN  <<s % Base>> \o BMulFrom(a, f, i + 1, s \div Base)

BMulSmall(a, f) == BNorm(BMulFrom(a, f, 1, 0))

\* quotient and remainder of a by a small divisor d (0 < d <= 100)
RECURSIVE BDivFrom(_, _, _, _)
BDivFrom(a, d, i, r) ==
  IF i = 0 THEN [q |-> <<>>, r |-> r]
  ELSE LET t    == r * Base + a[i]
           rest == BDivFrom(a, d, i - 1, t % d)
       IN  [q |-> rest.q \o <<t \div d>>, r |-> rest.r]

BDivSmall(a, d) ==
  LET x == BDivFrom(a, d, Len(a), 0) IN [q |-> BNorm(x.q), r |-> x.r]

(***************************************************************************)
(* IEEE-754 binary64 numbers (the JavaScript number type).                 *)
(* A finite nonzero number is canonical: its significand has exactly       *)
(* Precision bits, or fewer with e = MinExp (subnormal).  Zero is          *)
(* m = <<>>, e = 0 and keeps its sign.                                     *)
(***************************************************************************)
Precision == 53

MinExp == -1074

MaxExp == 971

NaN == [k |-> "nan", s |-> 0, m |-> <<>>, e |-> 0]

Infinity(s) == [k |-> "inf", s |-> s, m |-> <<>>, e |-> 0]

Zero(s) == [k |-> "fin", s |-> s, m |-> <<>>, e |-> 0]

IsNaN(x) == x.k = "nan"

IsFinite(x) == x.k = "fin"

\* x === 0 (true of +0 and of -0)
IsZero(x) == x.k = "fin" /\ x.m = <<>>

\* The exponent of the number that M * 2^e rounds to, M having L bits
TargetExp(e, L) ==
  IF e + L - Precision > MinExp THEN e + L - Precision ELSE MinExp

PackExp(s, m, e) ==
  IF e > MaxExp THEN Infinity(s) ELSE [k |-> "fin", s |-> s, m |-> m, e |-> e]

\* q * 2^t, q of at most Precision + 1 bits (a carry out of the rounding)
Pack(s, q, t) ==
  IF q = <<>> THEN Zero(s)
  ELSE IF BBitLen(q) > Precision THEN PackExp(s, BShr(q, 1), t + 1)
  ELSE PackExp(s, q, t)

\* round to nearest, ties to even: q the kept bits, half the first dropped
\* bit, low whether anything below it is set
RoundNearestEven(s, q, t, half, low) ==
  Pack(s, IF half /\ (low \/ BIsOdd(q)) THEN BAdd(q, <<1>>) ELSE q, t)

RoundAt(s, M, e, sticky, t) ==
  IF t <= e
  THEN PackExp(s, BShl(M, e - t), t)
  ELSE RoundNearestEven(s, BShr(M, t - e), t, BBit(M, t - e - 1) = 1,
                        sticky \/ BLowNonZero(M, t - e - 1))

\* The number nearest to (-1)^s * (M + f) * 2^e, ties to even, where
\* 0 <= f < 1 and sticky tells whether f > 0.  (When sticky holds the
\* callers supply an M long enough for at least one bit to be dropped.)
RoundToDouble(s, M, e, sticky) ==
  IF M = <<>> THEN Zero(s)
  ELSE RoundAt(s, M, e, sticky, TargetExp(e, BBitLen(M)))

FNeg(x) == IF IsNaN(x) THEN x ELSE [x EXCEPT !.s = 1 - x.s]

\* Math.abs
FAbs(x) == IF IsNaN(x) THEN x ELSE [x EXCEPT !.s = 0]

\* -1, 0, 1 as |x| < |y|, |x| = |y|, |x| > |y|, for finite x and y
MagCmp(x, y) ==
  IF x.m = <<>> \/ y.m = <<>>
  THEN (IF x.m = y.m THEN 0 ELSE IF x.m = <<>> THEN -1 ELSE 1)
  ELSE IF x.e < y.e THEN -1
  ELSE IF x.e > y.e THEN 1
  ELSE BCmp(x.m, y.m)

\* -1, 0, 1 as x < y, x = y, x > y, for x and y that are not NaN
FCmp(x, y) ==
  IF IsZero(x) /\ IsZero(y) THEN 0
  ELSE IF x.s # y.s THEN
    (IF IsZero(x) THEN (IF y.s = 1 THEN 1 ELSE -1)
     ELSE IF x.s = 1 THEN -1 ELSE 1)
  ELSE
    LET mag == IF x.k = "inf" THEN (IF y.k = "inf" THEN 0 ELSE 1)
               ELSE IF y.k = "inf" THEN -1
               ELSE MagCmp(x, y)
    IN  IF x.s = 1 THEN 0 - mag ELSE mag

\* x < y, x > y, x === y: all false when an operand is NaN
FLt(x, y) == ~IsNaN(x) /\ ~IsNaN(y) /\ FCmp(x, y) = -1

FGt(x, y) == ~IsNaN(x) /\ ~IsNaN(y) /\ FCmp(x, y) = 1

FEq(x, y) == ~IsNaN(x) /\ ~IsNaN(y) /\ FCmp(x, y) = 0

\* X * 2^e0 + Y * 2^e0 with the signs sx and sy, for X and Y not 0
AddAligned(sx, X, sy, Y, e0) ==
  IF sx = sy THEN RoundToDouble(sx, BAdd(X, Y), e0, FALSE)
  ELSE IF BCmp(X, Y) = 0 THEN Zero(0)
  ELSE IF BCmp(X, Y) = 1 THEN RoundToDouble(sx, BSub(X, Y), e0, FALSE)
  ELSE RoundToDouble(sy, BSub(Y, X), e0, FALSE)

AddFinite(x, y, e0) ==
  AddAligned(x.s, BShl(x.m, x.e - e0), y.s, BShl(y.m, y.e - e0), e0)

\* x + y
FAdd(x, y) ==
  IF IsNaN(x) \/ IsNaN(y) THEN NaN
  ELSE IF x.k = "inf" THEN (IF y.k = "inf" /\ y.s # x.s THEN NaN ELSE x)
  ELSE IF y.k = "inf" THEN y
  ELSE IF IsZero(x) /\ IsZero(y) THEN Zero(IF x.s = y.s THEN x.s ELSE 0)
  ELSE IF IsZero(x) THEN y
  ELSE IF IsZero(y) THEN x
  ELSE AddFinite(x, y, IF x.e < y.e THEN x.e ELSE y.e)

\* x - y
FSub(x, y) == FAdd(x, FNeg(y))

\* Math.min(x, y)
FMin(x, y) ==
  IF IsNaN(x) \/ IsNaN(y) THEN NaN
  ELSE IF IsZero(x) /\ IsZero(y) THEN Zero(IF x.s = 1 \/ y.s = 1 THEN 1 ELSE 0)
  ELSE IF FCmp(x, y) = 1 THEN y ELSE x

\* the quotient d.q with remainder d.r, scaled by 2^e, as a number
RoundQuotient(s, d, e) == RoundToDouble(s, d.q, e, d.r # 0)

\* x / n for an array length n (a non-negative integer, n <= 100)
FDivInt(x, n) ==
  IF IsNaN(x) THEN NaN
  ELSE IF n = 0 THEN (IF IsZero(x) THEN NaN ELSE Infinity(x.s))
  ELSE IF x.k = "inf" \/ IsZero(x) THEN x
  ELSE RoundQuotient(x.s, BDivSmall(BShl(x.m, 16), n), x.e - 16)

RECURSIVE BPowSmall(_, _)
BPowSmall(f, n) == IF n = 0 THEN <<1>> ELSE BMulSmall(BPowSmall(f, n - 1), f)

\* 1e21, from which on toFixed gives the exponent notation of the number
TenTo21 == RoundToDouble(0, BShl(BPowSmall(5, 21), 21), 0, FALSE)

\* the integer nearest to m * 2^e * 100, the larger one on a tie
NearestHundredths(T, e) ==
  IF e >= 0 THEN BShl(T, e)
  ELSE BShr(BAdd(T, BShl(<<1>>, (0 - e) - 1)), 0 - e)

\* Number.prototype.toFixed(2): the string it returns, as
\*   [form |-> "NaN"], [form |-> "tostring", v |-> x]  (x >= 1e21: String(x)),
\*   [form |-> "fixed", s |-> sign, n |-> N]  (the decimal N/100, N the
\*   integer nearest to |x| * 100, the larger one on a tie)
toFixed2(x) ==
  IF IsNaN(x) THEN [form |-> "NaN"]
  ELSE IF x.k = "inf" \/ MagCmp(x, TenTo21) >= 0 THEN [form |-> "tostring", v |-> x]
  ELSE [form |-> "fixed", s |-> (IF IsZero(x) THEN 0 ELSE x.s),
        n |-> NearestHundredths(BMulSmall(x.m, 100), x.e)]

\* n / 100 for a natural number n # 0, scaled up by 2^g before the division
ParseHundredths(s, n, g) ==
  RoundQuotient(s, BDivSmall(BShl(n, g), 100), 0 - g)

\* parseFloat of a string toFixed2 gave: the number nearest to the decimal
parseFloat(str) ==
  IF str.form = "NaN" THEN NaN
  ELSE IF str.form = "tostring" THEN str.v
  ELSE IF str.n = <<>> THEN Zero(str.s)
  ELSE ParseHundredths(str.s, str.n, IF BBitLen(str.n) < 64 THEN 64 - BBitLen(str.n) ELSE 0)

\* The number written as the decimal literal c/100 (c a natural number)
Cents(c) == parseFloat([form |-> "fixed", s |-> 0, n |-> BFromInt(c)])

\* Number.MAX_VALUE
MAX_VALUE == [k |-> "fin", s |-> 0, m |-> BSub(BShl(<<1>>, Precision), <<1>>), e |-> MaxExp]

(***************************************************************************)
(* The records of the program.                                             *)
(***************************************************************************)
Names == {"A", "B", "C", "D"}

\* expense.paidBy is an array of payers, or (an older shape) a payer's name
PaidByArray(payers) == [t |-> "array", v |-> payers]

PaidByString(name) == [t |-> "string", v |-> name]

Payer(name, amount) == [name |-> name, amount |-> amount]

Expense(amount, paidBy, splitBetween) ==
  [amount |-> amount, paidBy |-> paidBy, splitBetween |-> splitBetween]

\* an absent settledAt
Undefined == [k |-> "undefined"]

Balance(from, to, amount) ==
  [from |-> from, to |-> to, amount |-> amount, isSettled |-> FALSE,
   settledAt |-> Undefined]

getPayers(expense) ==
  IF expense.paidBy.t = "array" THEN expense.paidBy.v
  ELSE IF expense.paidBy.t = "string"
  THEN <<Payer(expense.paidBy.v, expense.amount)>>
  ELSE <<>>

(***************************************************************************)
(* Set<string> and Map<string, number> keep their keys in insertion order: *)
(* a Set is a sequence of names, a Map a sequence of entries               *)
(* [name, amount].                                                         *)
(***************************************************************************)
SetAdd(set, name) ==
  IF \E i \in 1..Len(set) : set[i] = name THEN set ELSE Append(set, name)

MapHas(map, name) == \E i \in 1..Len(map) : map[i].name = name

MapGet(map, name) ==
  IF MapHas(map, name)
  THEN map[CHOOSE i \in 1..Len(map) : map[i].name = name].amount
  ELSE Undefined

MapSet(map, name, amount) ==
  IF MapHas(map, name)
  THEN [i \in 1..Len(map) |->
          IF map[i].name = name THEN Payer(name, amount) ELSE map[i]]
  ELSE Append(map, Payer(name, amount))

\* x || 0: undefined, NaN, 0 and -0 are falsy
OrZero(x) ==
  IF x.k = "undefined" \/ x.k = "nan" \/ IsZero(x) THEN Zero(0) ELSE x

(***************************************************************************)
(* calculateBalances, lines 13-52: the participants, their net amounts,    *)
(* the debtors and the creditors.                                          *)
(***************************************************************************)
RECURSIVE AddPayerNames(_, _, _)
AddPayerNames(set, payers, i) ==
  IF i > Len(payers) THEN set
  ELSE AddPayerNames(SetAdd(set, payers[i].name), payers, i + 1)

RECURSIVE AddSplitNames(_, _, _)
AddSplitNames(set, splitBetween, i) ==
  IF i > Len(splitBetween) THEN set
  ELSE AddSplitNames(SetAdd(set, splitBetween[i]), splitBetween, i + 1)

RECURSIVE allParticipants(_, _, _)
allParticipants(exps, i, set) ==
  IF i > Len(exps) THEN set
  ELSE allParticipants(exps, i + 1,
         AddSplitNames(AddPayerNames(set, getPayers(exps[i]), 1),
                       exps[i].splitBetween, 1))

\* participants.forEach((participant) => netAmounts.set(participant, 0))
InitialNetAmounts(participants) ==
  [i \in 1..Len(participants) |-> Payer(participants[i], Zero(0))]

RECURSIVE CreditPayers(_, _, _)
CreditPayers(map, payers, i) ==
  IF i > Len(payers) THEN map
  ELSE CreditPayers(
         MapSet(map, payers[i].name,
                FAdd(OrZero(MapGet(map, payers[i].name)), payers[i].amount)),
         payers, i + 1)

RECURSIVE DebitShares(_, _, _, _)
DebitShares(map, splitBetween, splitAmount, i) ==
  IF i > Len(splitBetween) THEN map
  ELSE DebitShares(
         MapSet(map, splitBetween[i],
                FSub(OrZero(MapGet(map, splitBetween[i])), splitAmount)),
         splitBetween, splitAmount, i + 1)

SplitAmount(expense) == FDivInt(expense.amount, Len(expense.splitBetween))

\* a forEach that stops one expense short
RECURSIVE AccumulateNetSkipLast(_, _, _)
AccumulateNetSkipLast(map, exps, i) ==
  IF i >= Len(exps) THEN map
  ELSE AccumulateNetSkipLast(
         DebitShares(CreditPayers(map, getPayers(exps[i]), 1),
                     exps[i].splitBetween, SplitAmount(exps[i]), 1),
         exps, i + 1)

RECURSIVE AccumulateNet(_, _, _)
AccumulateNet(map, exps, i) ==
  IF i > Len(exps) THEN map
  ELSE AccumulateNet(
         DebitShares(CreditPayers(map, getPayers(exps[i]), 1),
                     exps[i].splitBetween, SplitAmount(exps[i]), 1),
         exps, i + 1)

NetAmountsOf(exps) ==
  AccumulateNet(InitialNetAmounts(allParticipants(exps, 1, <<>>)), exps, 1)

IsDebtorAmount(amount) == FLt(amount, Zero(0))

IsCreditorAmount(amount) == FGt(amount, Zero(0))

RECURSIVE DebtorsOf(_, _)
DebtorsOf(map, i) ==
  IF i > Len(map) THEN <<>>
  ELSE IF IsDebtorAmount(map[i].amount)
  THEN <<Payer(map[i].name, FAbs(map[i].amount))>> \o DebtorsOf(map, i + 1)
  ELSE DebtorsOf(map, i + 1)

\* a partition that takes every participant with a non-zero net as a creditor
RECURSIVE CreditorsOfNonZero(_, _)
CreditorsOfNonZero(map, i) ==
  IF i > Len(map) THEN <<>>
  ELSE IF IsDebtorAmount(map[i].amount) \/ IsCreditorAmount(map[i].amount)
  THEN <<map[i]>> \o CreditorsOfNonZero(map, i + 1)
  ELSE CreditorsOfNonZero(map, i + 1)

RECURSIVE CreditorsOf(_, _)
CreditorsOf(map, i) ==
  IF i > Len(map) THEN <<>>
  ELSE IF ~IsDebtorAmount(map[i].amount) /\ IsCreditorAmount(map[i].amount)
  THEN <<map[i]>> \o CreditorsOf(map, i + 1)
  ELSE CreditorsOf(map, i + 1)

\* the comparator (a, b) => b.amount - a.amount returns a positive number
\* (a NaN result counts as 0)
ComparatorPositive(a, b) == FGt(FSub(b.amount, a.amount), Zero(0))

\* Array.prototype.sort is stable: an insertion sort gives its result
RECURSIVE SortInsert(_, _)
SortInsert(sorted, x) ==
  IF sorted = <<>> THEN <<x>>
  ELSE LET last == sorted[Len(sorted)]
       IN  IF ComparatorPositive(last, x)
           THEN Append(SortInsert(SubSeq(sorted, 1, Len(sorted) - 1), x), last)
           ELSE Append(sorted, x)

\* no sorting at all: the order of insertion is kept
unsorted(arr) == arr

RECURSIVE sort(_)
sort(arr) ==
  IF arr = <<>> THEN <<>>
  ELSE SortInsert(sort(SubSeq(arr, 1, Len(arr) - 1)), arr[Len(arr)])

(***************************************************************************)
(* calculateParticipantSummary                                             *)
(***************************************************************************)
RECURSIVE PaidBy(_, _, _, _)
PaidBy(payers, participantName, i, acc) ==
  IF i > Len(payers) THEN acc
  ELSE PaidBy(payers, participantName, i + 1,
         IF payers[i].name = participantName
         THEN [totalPaid    |-> FAdd(acc.totalPaid, payers[i].amount),
               expenseCount |-> acc.expenseCount + 1]
         ELSE acc)

Includes(arr, x) == \E i \in 1..Len(arr) : arr[i] = x

\* a share added without the test of includes
OwedWithoutIncludes(expense, participantName, totalOwed) ==
  FAdd(totalOwed, SplitAmount(expense))

\* lines 120-122
Owed(expense, participantName, totalOwed) ==
  IF Includes(expense.splitBetween, participantName)
  THEN FAdd(totalOwed, SplitAmount(expense))
  ELSE totalOwed

SummaryAcc(paid, totalOwed) ==
  [totalPaid |-> paid.totalPaid, expenseCount |-> paid.expenseCount,
   totalOwed |-> totalOwed]

RECURSIVE SummaryTotals(_, _, _, _)
SummaryTotals(exps, participantName, i, acc) ==
  IF i > Len(exps) THEN acc
  ELSE SummaryTotals(exps, participantName, i + 1,
         SummaryAcc(
           PaidBy(getPayers(exps[i]), participantName, 1,
                  [totalPaid |-> acc.totalPaid, expenseCount |-> acc.expenseCount]),
           Owed(exps[i], participantName, acc.totalOwed)))

\* lines 124-133
SummaryRecord(participantName, t, netAmount) ==
  [name         |-> participantName,
   totalPaid    |-> t.totalPaid,
   totalOwed    |-> t.totalOwed,
   netAmount    |-> netAmount,
   expenseCount |-> t.expenseCount,
   isCreditor   |-> FGt(netAmount, Zero(0)),
   isDebtor     |-> FLt(netAmount, Zero(0)),
   isSettled    |-> FEq(netAmount, Zero(0))]

SummaryOf(participantName, t) ==
  SummaryRecord(participantName, t, FSub(t.totalPaid, t.totalOwed))

calculateParticipantSummary(exps, participantName) ==
  SummaryOf(participantName,
            SummaryTotals(exps, participantName, 1,
              [totalPaid |-> Zero(0), expenseCount |-> 0, totalOwed |-> Zero(0)]))

(***************************************************************************)
(* The settlement ledger.  Balance objects live in a heap (a sequence of   *)
(* records, an object's reference being its index) and an array of         *)
(* balances is a sequence of references, so that sharing and mutation of   *)
(* objects are visible.                                                    *)
(***************************************************************************)
\* new Date().toISOString(): the millisecond clock, rendered one-to-one
toISOString(clock) == [k |-> "iso", ms |-> clock]

\* a condition that forgets to compare the receiver
MatchesFromOnly(balance, from, to) ==
  balance.from = from /\ ~balance.isSettled

\* a condition that forgets the test of isSettled
MatchesSettledToo(balance, from, to) ==
  balance.from = from /\ balance.to = to

\* the condition of line 142
Matches(balance, from, to) ==
  balance.from = from /\ balance.to = to /\ ~balance.isSettled

\* lines 143-147: { ...balance, isSettled: true, settledAt: ... }
SettledCopy(balance, at) ==
  [balance EXCEPT !.isSettled = TRUE, !.settledAt = at]

\* a callback that settles the matching object in place
MapCallbackInPlace(acc, ref, from, to, at) ==
  IF Matches(acc.heap[ref], from, to)
  THEN [heap |-> [acc.heap EXCEPT ![ref] = SettledCopy(acc.heap[ref], at)],
        out  |-> Append(acc.out, ref)]
  ELSE [heap |-> acc.heap, out |-> Append(acc.out, ref)]

\* lines 141-150, the callback of map: a new object for a match, else the
\* same object
MapCallback(acc, ref, from, to, at) ==
  IF Matches(acc.heap[ref], from, to)
  THEN [heap |-> Append(acc.heap, SettledCopy(acc.heap[ref], at)),
        out  |-> Append(acc.out, Len(acc.heap) + 1)]
  ELSE [heap |-> acc.heap, out |-> Append(acc.out, ref)]

RECURSIVE MapFrom(_, _, _, _, _, _)
MapFrom(acc, arr, i, from, to, at) ==
  IF i > Len(arr) THEN acc
  ELSE MapFrom(MapCallback(acc, arr[i], from, to, at), arr, i + 1, from, to, at)

\* markBalanceAsSettled(balances, from, to) run on heap hp at time at: the
\* heap after the call and the array returned
markBalanceAsSettled(hp, arr, from, to, at) ==
  MapFrom([heap |-> hp, out |-> <<>>], arr, 1, from, to, at)

RECURSIVE FilterSettled(_, _, _, _)
FilterSettled(hp, arr, i, wanted) ==
  IF i > Len(arr) THEN <<>>
  ELSE IF hp[arr[i]].isSettled = wanted
  THEN <<arr[i]>> \o FilterSettled(hp, arr, i + 1, wanted)
  ELSE FilterSettled(hp, arr, i + 1, wanted)

getSettledBalances(hp, arr) == FilterSettled(hp, arr, 1, TRUE)

\* a filter copied from getSettledBalances without its negation
getUnsettledNotNegated(hp, arr) == FilterSettled(hp, arr, 1, TRUE)

getUnsettledBalances(hp, arr) == FilterSettled(hp, arr, 1, FALSE)

\* reduce((sum, balance) => sum + balance.amount, 0), from entry i on
RECURSIVE SumAmounts(_, _, _, _)
SumAmounts(hp, arr, i, sum) ==
  IF i > Len(arr) THEN sum
  ELSE SumAmounts(hp, arr, i + 1, FAdd(sum, hp[arr[i]].amount))

getTotalSettledAmount(hp, arr) ==
  SumAmounts(hp, FilterSettled(hp, arr, 1, TRUE), 1, Zero(0))

\* a total over a filter copied without its negation
getTotalUnsettledNotNegated(hp, arr) ==
  SumAmounts(hp, FilterSettled(hp, arr, 1, TRUE), 1, Zero(0))

getTotalUnsettledAmount(hp, arr) ==
  SumAmounts(hp, FilterSettled(hp, arr, 1, FALSE), 1, Zero(0))

\* the records an array refers to
Deref(hp, arr) == [i \in 1..Len(arr) |-> hp[arr[i]]]

(***************************************************************************)
(* The storage manager's expense list: the value kept under the key        *)
(* STORAGE_KEYS.EXPENSES, a sequence of stored expenses [id, rev] (rev     *)
(* stands for the rest of the record, which updateExpense replaces).       *)
(* A call first reads the list (getExpenses parses a copy of its own),     *)
(* changes the copy, and then writes it back (saveExpenses); the two       *)
(* awaits let other calls run in between.                                  *)
(***************************************************************************)
StoredExpense(id, rev) == [id |-> id, rev |-> rev]

\* the calls made: two addExpense calls for new ids, and a deleteExpense
\* and an updateExpense of another id
StorageCalls ==
  { [op |-> "addExpense", id |-> "e1"],
    [op |-> "addExpense", id |-> "e2"],
    [op |-> "deleteExpense", id |-> "e0"],
    [op |-> "updateExpense", id |-> "e0"] }

HasId(list, id) == \E i \in 1..Len(list) : list[i].id = id

\* line 371: expenses.push(expense)
Pushed(list, id) == Append(list, StoredExpense(id, "new"))

\* line 394: expenses.filter(expense => expense.id !== expenseId)
RECURSIVE WithoutId(_, _, _)
WithoutId(list, id, i) ==
  IF i > Len(list) THEN <<>>
  ELSE IF list[i].id # id THEN <<list[i]>> \o WithoutId(list, id, i + 1)
  ELSE WithoutId(list, id, i + 1)

\* lines 381-383: the first entry with the id is replaced
findIndex(list, id) ==
  IF HasId(list, id)
  THEN CHOOSE i \in 1..Len(list) :
         list[i].id = id /\ \A j \in 1..(i - 1) : list[j].id # id
  ELSE -1

Replace(list, id) ==
  [list EXCEPT ![findIndex(list, id)] = StoredExpense(id, "updated")]

\* what a call makes of the list it has read
Changed(call, list) ==
  IF call.op = "addExpense" THEN Pushed(list, call.id)
  ELSE IF call.op = "deleteExpense" THEN WithoutId(list, call.id, 1)
  ELSE IF HasId(list, call.id) THEN Replace(list, call.id)
  ELSE list

\* updateExpense saves only when it has found the id (line 382)
Saves(call, list) == call.op = "updateExpense" => HasId(list, call.id)

NotCalled == [pc |-> "idle", expenses |-> <<>>]

(***************************************************************************)
(* The inputs: expense lists of at most MaxExpenses expenses drawn from a  *)
(* catalogue, amounts in hundredths written as decimal literals.           *)
(***************************************************************************)
MaxExpenses == 3

\* the engine's loop is cut off after MaxBalances emitted debts
MaxBalances == 6

SinglePayer(amount, name, splitBetween) ==
  Expense(amount, PaidByArray(<<Payer(name, amount)>>), splitBetween)

Catalogue ==
  { SinglePayer(Cents(1), "A", <<"B">>),
    SinglePayer(Cents(3), "A", <<"C", "D">>),
    SinglePayer(Cents(1), "A", <<"A", "B">>),
    SinglePayer(Cents(1), "A", <<"A", "B", "C">>),
    SinglePayer(Cents(10), "A", <<"B", "C">>),
    SinglePayer(Cents(20), "A", <<"A", "B">>),
    SinglePayer(Cents(20), "B", <<"A", "B">>),
    SinglePayer(MAX_VALUE, "A", <<"B">>),
    Expense(Cents(20), PaidByString("C"), <<"C">>),
    Expense(Cents(20),
            PaidByArray(<<Payer("B", Cents(10)), Payer("C", Cents(10))>>),
            <<"A">>) }

\* the boundary inputs, an expense with an empty splitBetween and the
\* expense of 300 split three ways, come in lists of at most MaxBoundary
\* expenses
MaxBoundary == 2

BoundaryCatalogue ==
  { SinglePayer(Cents(20), "A", <<>>),
    SinglePayer(Cents(30000), "A", <<"A", "B", "C">>) }

ExpenseLists ==
  UNION {[1..n -> Catalogue] : n \in 0..MaxExpenses}
    \cup UNION {[1..n -> Catalogue \cup BoundaryCatalogue] : n \in 0..MaxBoundary}

\* The ledger's inputs: debt lists of at most MaxDebts debts, settled or
\* not, the same (from, to) pair allowed more than once; the clock runs
\* to MaxClock.
MaxDebts == 3

MaxClock == 2

\* unsettled debts: A owes B 0.02 or 0.03, B owes A 0.01 (sums of 0.01,
\* 0.02 and 0.03 depend on the order of addition)
UnsettledChoices ==
  { Balance("A", "B", Cents(2)), Balance("A", "B", Cents(3)),
    Balance("B", "A", Cents(1)) }

\* unsettled debts, and a debt of 0.02 settled at time 0
DebtChoices ==
  UnsettledChoices
    \cup { SettledCopy(Balance("A", "B", Cents(2)), toISOString(0)) }

DebtLists == UNION {[1..n -> DebtChoices] : n \in 0..MaxDebts}

CallPairs == {<<"A", "B">>, <<"B", "A">>, <<"A", "C">>}

(***************************************************************************)
(* State.  One call of calculateBalances(expenses) runs from pc = "start"  *)
(* to pc = "done"; balances is the array it builds and returns.            *)
(* The ledger: heap holds the Balance objects, ledger is the caller's      *)
(* current array; input and inputCopy are the array passed to the last     *)
(* call of markBalanceAsSettled and the records it held at that time,      *)
(* lastCall the call's arguments and time, now the clock.                  *)
(***************************************************************************)
VARIABLES expenses, pc, netAmounts, debtors, creditors, debtorIndex,
          creditorIndex, balances, summary,
          heap, ledger, input, inputCopy, lastCall, now,
          stored, calls

engineVars == <<expenses, pc, netAmounts, debtors, creditors, debtorIndex,
                creditorIndex, balances, summary>>

ledgerVars == <<heap, ledger, input, inputCopy, lastCall, now>>

storageVars == <<stored, calls>>

vars == <<engineVars, ledgerVars, storageVars>>

NoSummary == [name |-> "none"]

NoCall == [from |-> "none", to |-> "none", at |-> Undefined]

EngineIdle ==
  /\ pc = "start"
  /\ netAmounts = <<>>
  /\ debtors = <<>>
  /\ creditors = <<>>
  /\ debtorIndex = 0
  /\ creditorIndex = 0
  /\ balances = <<>>
  /\ summary = NoSummary

StorageIdle ==
  /\ stored = <<>>
  /\ calls = [c \in StorageCalls |-> NotCalled]

LedgerIdle ==
  /\ input = <<>>
  /\ inputCopy = <<>>
  /\ lastCall = NoCall

\* the engine's runs: any expense list, no ledger
Init ==
  /\ expenses \in ExpenseLists
  /\ EngineIdle
  /\ heap = <<>>
  /\ ledger = <<>>
  /\ LedgerIdle
  /\ now = 0
  /\ StorageIdle

\* the ledger's runs: any debt list, each debt an object of its own
LedgerInit ==
  /\ expenses = <<>>
  /\ EngineIdle
  /\ heap \in DebtLists
  /\ ledger = [i \in 1..Len(heap) |-> i]
  /\ LedgerIdle
  /\ now = 1
  /\ StorageIdle

\* line 11: if (expenses.length === 0) return [];
ReturnEmpty ==
  /\ pc = "start"
  /\ Len(expenses) = 0
  /\ pc' = "done"
  /\ UNCHANGED <<expenses, netAmounts, debtors, creditors, debtorIndex,
                 creditorIndex, balances, summary>>
  /\ UNCHANGED <<ledgerVars, storageVars>>

PrepareFrom(net) ==
  /\ netAmounts' = net
  /\ debtors' = sort(DebtorsOf(net, 1))
  /\ creditors' = sort(CreditorsOf(net, 1))

\* lines 13-55
Prepare ==
  /\ pc = "start"
  /\ Len(expenses) # 0
  /\ PrepareFrom(NetAmountsOf(expenses))
  /\ balances' = <<>>
  /\ debtorIndex' = 0
  /\ creditorIndex' = 0
  /\ pc' = "loop"
  /\ UNCHANGED <<expenses, summary>>
  /\ UNCHANGED <<ledgerVars, storageVars>>

LoopCondition ==
  debtorIndex < Len(debtors) /\ creditorIndex < Len(creditors)

\* lines 69-73: the emitted debt
\* a debt that names the creditor as its payer too
EmittedBalanceFromCreditor(debtor, creditor, amount) ==
  Balance(creditor.name, creditor.name, parseFloat(toFixed2(amount)))

EmittedBalance(debtor, creditor, amount) ==
  Balance(debtor.name, creditor.name, parseFloat(toFixed2(amount)))

\* lines 75-79
Settle(dRest, cRest) ==
  /\ debtors' = [debtors EXCEPT ![debtorIndex + 1].amount = dRest]
  /\ creditors' = [creditors EXCEPT ![creditorIndex + 1].amount = cRest]
  /\ debtorIndex' = IF IsZero(dRest) THEN debtorIndex + 1 ELSE debtorIndex
  /\ creditorIndex' = IF IsZero(cRest) THEN creditorIndex + 1 ELSE creditorIndex

\* a transfer that pushes its debt twice
TransferTwice(debtor, creditor, amount) ==
  /\ balances' = Append(Append(balances, EmittedBalance(debtor, creditor, amount)),
                        EmittedBalance(debtor, creditor, amount))
  /\ Settle(FSub(debtor.amount, amount), FSub(creditor.amount, amount))

\* lines 68-79
Transfer(debtor, creditor, amount) ==
  /\ balances' = Append(balances, EmittedBalance(debtor, creditor, amount))
  /\ Settle(FSub(debtor.amount, amount), FSub(creditor.amount, amount))

\* lines 58-79
Match(debtor, creditor) ==
  IF debtor.name = creditor.name
  THEN /\ debtorIndex' = debtorIndex + 1
       /\ UNCHANGED <<debtors, creditors, creditorIndex, balances>>
  ELSE Transfer(debtor, creditor, FMin(debtor.amount, creditor.amount))

\* lines 57-80: one iteration of the while loop
LoopIteration ==
  /\ pc = "loop"
  /\ LoopCondition
  /\ Len(balances) < MaxBalances
  /\ Match(debtors[debtorIndex + 1], creditors[creditorIndex + 1])
  /\ UNCHANGED <<expenses, pc, netAmounts, summary>>
  /\ UNCHANGED <<ledgerVars, storageVars>>

\* line 82: return balances
Return ==
  /\ pc = "loop"
  /\ ~LoopCondition
  /\ pc' = "done"
  /\ UNCHANGED <<expenses, netAmounts, debtors, creditors, debtorIndex,
                 creditorIndex, balances, summary>>
  /\ UNCHANGED <<ledgerVars, storageVars>>

\* a call of calculateParticipantSummary(expenses, name) on the same expenses
Summarize(name) ==
  /\ pc = "done"
  /\ summary = NoSummary
  /\ summary' = calculateParticipantSummary(expenses, name)
  /\ UNCHANGED <<expenses, pc, netAmounts, debtors, creditors, debtorIndex,
                 creditorIndex, balances>>
  /\ UNCHANGED <<ledgerVars, storageVars>>

Next ==
  \/ ReturnEmpty
  \/ Prepare
  \/ LoopIteration
  \/ Return
  \/ \E name \in Names : Summarize(name)

Spec == Init /\ [][Next]_vars

(***************************************************************************)
(* Properties of the balance engine.                                       *)
(***************************************************************************)
RECURSIVE PayerTotal(_, _)
PayerTotal(payers, i) ==
  IF i > Len(payers) THEN Zero(0)
  ELSE FAdd(PayerTotal(payers, i + 1), payers[i].amount)

\* an expense with a non-empty splitBetween whose payer amounts sum to its
\* amount
WellFormed(expense) ==
  /\ Len(expense.splitBetween) > 0
  /\ FEq(PayerTotal(getPayers(expense), 1), expense.amount)

AllWellFormed == \A i \in 1..Len(expenses) : WellFormed(expenses[i])

\* a validly shaped expense: a finite amount that is not negative and a
\* non-empty splitBetween
ValidShape(expense) ==
  /\ IsFinite(expense.amount)
  /\ ~FLt(expense.amount, Zero(0))
  /\ Len(expense.splitBetween) > 0

AllValidShape == \A i \in 1..Len(expenses) : ValidShape(expenses[i])

\* the sum of the amounts of the returned debts in which name is the payer
\* (role "from") or the receiver (role "to")
RECURSIVE EmittedTotal(_, _, _)
EmittedTotal(name, role, i) ==
  IF i > Len(balances) THEN Zero(0)
  ELSE IF balances[i][role] = name
  THEN FAdd(balances[i].amount, EmittedTotal(name, role, i + 1))
  ELSE EmittedTotal(name, role, i + 1)

\* total and position differ by an amount that itself rounds, to two
\* decimals, to at most 0.01
WithinOneCent(total, position) ==
  ~FGt(parseFloat(toFixed2(FAbs(FSub(total, position)))), Cents(1))

Reconciled(entry) ==
  IF IsDebtorAmount(entry.amount)
  THEN WithinOneCent(EmittedTotal(entry.name, "from", 1), FAbs(entry.amount))
  ELSE IF IsCreditorAmount(entry.amount)
  THEN WithinOneCent(EmittedTotal(entry.name, "to", 1), entry.amount)
  ELSE TRUE

\* C1: for every list of well-formed expenses, in the list calculateBalances
\* returns each net debtor's outgoing amounts sum to its deficit, and each
\* net creditor's incoming amounts sum to its surplus, within 0.01.
C1_DebtsReconcile ==
  (pc = "done" /\ AllWellFormed) =>
    \A i \in 1..Len(netAmounts) : Reconciled(netAmounts[i])

\* C2: for every list of validly shaped expenses, every debt
\* calculateBalances emits has an amount that, after the rounding to two
\* decimals, is strictly positive.
C2_AmountsPositive ==
  AllValidShape =>
    \A i \in 1..Len(balances) : FGt(balances[i].amount, Zero(0))

\* C7: the list calculateBalances returns has at most (net debtors) + (net
\* creditors) - 1 debts, and none when there is no net debtor or no net
\* creditor.
C7_DebtCountBound ==
  pc = "done" =>
    IF debtors = <<>> \/ creditors = <<>>
    THEN Len(balances) = 0
    ELSE Len(balances) <= Len(debtors) + Len(creditors) - 1

\* three debtors and one creditor, settled by three debts: the bound is met
C7_Witness ==
  /\ pc = "done"
  /\ Len(debtors) = 3
  /\ Len(creditors) = 1
  /\ Len(balances) = 3

AllNetZero == \A i \in 1..Len(netAmounts) : IsZero(netAmounts[i].amount)

\* one expense whose only payer is its only split member
SolePayerIsSoleMember ==
  /\ Len(expenses) = 1
  /\ Len(getPayers(expenses[1])) = 1
  /\ expenses[1].splitBetween = <<getPayers(expenses[1])[1].name>>

PaidAlone(expense) == Len(getPayers(expense)) = 1

SplitMembers(expense) ==
  {expense.splitBetween[i] : i \in 1..Len(expense.splitBetween)}

\* two participants, each the payer of one of two equal expenses that are
\* split between both
MutualEqualExpenses ==
  /\ Len(expenses) = 2
  /\ PaidAlone(expenses[1]) /\ PaidAlone(expenses[2])
  /\ getPayers(expenses[1])[1].name # getPayers(expenses[2])[1].name
  /\ FEq(expenses[1].amount, expenses[2].amount)
  /\ \A i \in 1..2 :
       /\ Len(expenses[i].splitBetween) = 2
       /\ SplitMembers(expenses[i]) =
            {getPayers(expenses[1])[1].name, getPayers(expenses[2])[1].name}

\* C8: calculateBalances returns the empty list whenever every participant's
\* net position is exactly zero: for the empty expense list, for one expense
\* whose sole payer is its sole split member, and for two participants who
\* each paid one of two equal expenses split between both.
C8_ZeroNetReturnsEmpty ==
  (pc = "done" /\ (\/ expenses = <<>>
                   \/ SolePayerIsSoleMember
                   \/ MutualEqualExpenses
                   \/ AllNetZero))
    => balances = <<>>

\* the run on two mutual equal expenses has returned, every net being zero
C8_Witness ==
  /\ pc = "done"
  /\ MutualEqualExpenses
  /\ Len(netAmounts) = 2
  /\ AllNetZero
  /\ balances = <<>>

Owes(name) == \E i \in 1..Len(balances) : balances[i].from = name

IsOwed(name) == \E i \in 1..Len(balances) : balances[i].to = name

\* C9: calculateBalances and calculateParticipantSummary agree on a
\* participant's role: who is the from of a returned debt is a debtor of the
\* summary, who is the to of one is a creditor, and who the summary calls
\* settled is in no returned debt.
C9_RolesAgree ==
  summary # NoSummary =>
    /\ Owes(summary.name) => summary.isDebtor
    /\ IsOwed(summary.name) => summary.isCreditor
    /\ summary.isSettled => ~Owes(summary.name) /\ ~IsOwed(summary.name)

\* C10: on every list of validly shaped expenses the loop of
\* calculateBalances terminates, every iteration advancing debtorIndex or
\* creditorIndex.
C10_IterationAdvances ==
  [][(AllValidShape /\ pc = "loop" /\ pc' = "loop") =>
       (debtorIndex' > debtorIndex \/ creditorIndex' > creditorIndex)]_vars

HasEmptySplit == \E i \in 1..Len(expenses) : Len(expenses[i].splitBetween) = 0

\* amounts far below the range in which a sum of them overflows
SmallAmounts == \A i \in 1..Len(expenses) : FLt(expenses[i].amount, TenTo21)

NetsFinite == \A i \in 1..Len(netAmounts) : IsFinite(netAmounts[i].amount)

DebtsFinite == \A i \in 1..Len(balances) : IsFinite(balances[i].amount)

SummaryFinite(s) == IsFinite(s.totalOwed) /\ IsFinite(s.netAmount)

\* the summary of every name has a finite totalOwed and netAmount
SummariesFinite ==
  \A name \in Names : SummaryFinite(calculateParticipantSummary(expenses, name))

\* C11, as stated: when an expense has an empty splitBetween, the non-finite
\* share amount / 0 propagates: some net position, emitted debt amount, or
\* totalOwed or netAmount of some participant's summary is non-finite.
C11_NonFinitePropagates ==
  (pc = "done" /\ HasEmptySplit) =>
    ~NetsFinite \/ ~DebtsFinite \/ ~SummariesFinite

\* C11, amended: the share of an expense with an empty splitBetween is
\* never used (there is no member to debit and includes is false), so with
\* amounts whose sums do not overflow every net position, every emitted
\* debt amount and every summary's totalOwed and netAmount is finite.
C11_EmptySplitShareUnused ==
  (pc = "done" /\ HasEmptySplit /\ SmallAmounts) =>
    NetsFinite /\ DebtsFinite /\ SummariesFinite

\* a run on a list with an empty splitBetween has returned and the summary
\* of a payer, who is credited with a finite amount, has been computed
C11_Witness ==
  /\ pc = "done"
  /\ HasEmptySplit
  /\ SmallAmounts
  /\ summary # NoSummary
  /\ summary.isCreditor
  /\ SummaryFinite(summary)

\* C12: no participant is in both the debtor list and the creditor list,
\* so the same-participant guard of the loop (debtor.name === creditor.name)
\* is never taken and no emitted debt has from equal to to.
C12_NoSelfDebt ==
  /\ \A i \in 1..Len(debtors) : \A j \in 1..Len(creditors) :
       debtors[i].name # creditors[j].name
  /\ (pc = "loop" /\ LoopCondition) =>
       debtors[debtorIndex + 1].name # creditors[creditorIndex + 1].name
  /\ \A i \in 1..Len(balances) : balances[i].from # balances[i].to

\* a run with two creditors has returned two debts
C12_Witness ==
  /\ pc = "done"
  /\ Len(creditors) = 2
  /\ Len(balances) = 2

DistinctPairs ==
  \A i \in 1..Len(balances) : \A j \in 1..Len(balances) :
    (balances[i].from = balances[j].from /\ balances[i].to = balances[j].to)
      => i = j

\* the number of entries of an array of n fresh objects 1..n that a call of
\* markBalanceAsSettled replaced
ReplacedCount(result, n) == Cardinality({i \in 1..n : result.out[i] # i})

\* markBalanceAsSettled(balances, from, to), run on the returned list,
\* replaces at most one entry
SettlesAtMostOne(from, to) ==
  ReplacedCount(markBalanceAsSettled(balances, [i \in 1..Len(balances) |-> i],
                                     from, to, toISOString(now)),
                Len(balances)) <= 1

\* C13: the debts one call of calculateBalances returns have pairwise
\* distinct (from, to) pairs, so that markBalanceAsSettled(d, from, to) on
\* the returned list d changes at most one entry.
C13_DistinctPairs ==
  pc = "done" =>
    /\ DistinctPairs
    /\ \A from \in Names : \A to \in Names : SettlesAtMostOne(from, to)

\* two returned debts share their creditor, and a call for the first
\* debt's pair replaces an entry
C13_Witness ==
  /\ pc = "done"
  /\ Len(balances) >= 2
  /\ balances[1].to = balances[2].to
  /\ ReplacedCount(markBalanceAsSettled(balances, [i \in 1..Len(balances) |-> i],
                                        balances[1].from, balances[1].to,
                                        toISOString(now)),
                   Len(balances)) = 1

RemaindersZero(parties) ==
  \A i \in 1..Len(parties) : IsZero(parties[i].amount)

\* C14: for every list of well-formed expenses the loop exits with both the
\* debtor list and the creditor list exhausted and every running remainder
\* exactly 0, the unrounded transfers of each party summing exactly to its
\* absolute net position.
C14_BothExhausted ==
  (pc = "done" /\ AllWellFormed) =>
    /\ debtorIndex = Len(debtors)
    /\ creditorIndex = Len(creditors)
    /\ RemaindersZero(debtors)
    /\ RemaindersZero(creditors)

\* the absolute net position of a participant, as computed before the loop
InitialMagnitude(name) == FAbs(MapGet(netAmounts, name))

\* the debts of each debtor are contiguous in the returned list
DebtorsContiguous ==
  \A i \in 1..Len(balances) : \A k \in i..Len(balances) :
    balances[i].from = balances[k].from =>
      \A j \in i..k : balances[j].from = balances[i].from

\* along the returned list the initial magnitude of the party in the given
\* role ("from" or "to") never increases
NonIncreasing(role) ==
  \A i \in 1..(Len(balances) - 1) :
    ~FGt(InitialMagnitude(balances[i + 1][role]),
         InitialMagnitude(balances[i][role]))

DescendingOrder ==
  /\ DebtorsContiguous
  /\ NonIncreasing("from")
  /\ NonIncreasing("to")

\* the smaller of two remaining magnitudes
LeastOf(x, y) ==
  IF IsNaN(x) \/ IsNaN(y) THEN NaN ELSE IF FLt(y, x) THEN y ELSE x

\* this step emits a debt between the parties at the two indices, of the
\* smaller of their remaining magnitudes, rounded to two decimals
EmitsLeast ==
  /\ balances'[Len(balances')].from = debtors[debtorIndex + 1].name
  /\ balances'[Len(balances')].to = creditors[creditorIndex + 1].name
  /\ balances'[Len(balances')].amount =
       parseFloat(toFixed2(LeastOf(debtors[debtorIndex + 1].amount,
                                   creditors[creditorIndex + 1].amount)))

\* one expense of 300 paid by A and split among A, B and C
ThreeHundredThreeWays ==
  expenses = <<SinglePayer(Cents(30000), "A", <<"A", "B", "C">>)>>

ReturnedSet == {balances[i] : i \in 1..Len(balances)}

\* C15: calculateBalances matches the parties in descending order of net
\* magnitude: in the returned list each debtor's debts are contiguous, the
\* debtors and the creditors appear in non-increasing order of their
\* initial magnitudes, every debt is the smaller of the two remaining
\* magnitudes at the time of the match, and one expense of 300 paid by A
\* and split among A, B and C gives exactly {B->A 100, C->A 100}.
C15_DescendingGreedy ==
  [][/\ pc' = "done" => DescendingOrder'
     /\ (pc' = "done" /\ ThreeHundredThreeWays) =>
          (/\ Len(balances') = 2
           /\ ReturnedSet' = {Balance("B", "A", Cents(10000)),
                              Balance("C", "A", Cents(10000))})
     /\ Len(balances') > Len(balances) =>
          (Len(balances') = Len(balances) + 1 /\ EmitsLeast)]_vars

PositionOf(name) == CHOOSE i \in 1..Len(netAmounts) : netAmounts[i].name = name

\* the first returned debt is of a debtor with a strictly larger deficit
\* than the next debtor's, although it became a participant later
C15_Witness ==
  /\ pc = "done"
  /\ Len(balances) >= 2
  /\ FGt(InitialMagnitude(balances[1].from), InitialMagnitude(balances[2].from))
  /\ PositionOf(balances[1].from) > PositionOf(balances[2].from)

(***************************************************************************)
(* The ledger's steps.                                                     *)
(***************************************************************************)
Returned(result) ==
  /\ heap' = result.heap
  /\ ledger' = result.out

\* the caller replaces its array by markBalanceAsSettled(ledger, from, to)
MarkSettled(from, to) ==
  /\ Returned(markBalanceAsSettled(heap, ledger, from, to, toISOString(now)))
  /\ input' = ledger
  /\ inputCopy' = Deref(heap, ledger)
  /\ lastCall' = [from |-> from, to |-> to, at |-> toISOString(now)]
  /\ UNCHANGED now
  /\ UNCHANGED <<engineVars, storageVars>>

\* the clock advances
Tick ==
  /\ now < MaxClock
  /\ now' = now + 1
  /\ UNCHANGED <<heap, ledger, input, inputCopy, lastCall>>
  /\ UNCHANGED <<engineVars, storageVars>>

LedgerNext ==
  \/ \E pr \in CallPairs : MarkSettled(pr[1], pr[2])
  \/ Tick

SpecLedger == LedgerInit /\ [][LedgerNext]_vars

(***************************************************************************)
(* Properties of the settlement ledger.                                    *)
(***************************************************************************)
\* this step is a call of markBalanceAsSettled with the debt's pair
CalledFor(debt) ==
  /\ input' = ledger
  /\ lastCall' # NoCall
  /\ lastCall'.from = debt.from
  /\ lastCall'.to = debt.to

\* what a step may do to the debt at position i
DebtStep(i) ==
  /\ heap[ledger[i]].isSettled => heap'[ledger'[i]] = heap[ledger[i]]
  /\ heap'[ledger'[i]] # heap[ledger[i]] =>
       /\ ~heap[ledger[i]].isSettled
       /\ heap'[ledger'[i]].isSettled
       /\ CalledFor(heap[ledger[i]])

\* C3: a settled debt stays settled and its settledAt never changes; the
\* only transition of a debt is from unsettled to settled, and it is taken
\* only in a call of markBalanceAsSettled whose (from, to) is the debt's.
C3_SettledIsAbsorbing ==
  [][/\ Len(ledger') = Len(ledger)
     /\ \A i \in 1..Len(ledger) : DebtStep(i)]_vars

\* a debt settled by an earlier call, and a later call for the same pair
C3_Witness ==
  /\ lastCall # NoCall
  /\ \E i \in 1..Len(ledger) :
       /\ heap[ledger[i]].isSettled
       /\ heap[ledger[i]].from = lastCall.from
       /\ heap[ledger[i]].to = lastCall.to
       /\ heap[ledger[i]].settledAt.ms >= 1
       /\ heap[ledger[i]].settledAt.ms < lastCall.at.ms

SameDebts(a, b) == Deref(a.heap, a.out) = Deref(b.heap, b.out)

\* the call repeated at time later on the result of a first call
RepeatedCall(first, from, to, later) ==
  SameDebts(first, markBalanceAsSettled(first.heap, first.out, from, to, later))

\* C4: markBalanceAsSettled is idempotent: applying it again with the same
\* (from, to) to its own result, the clock having advanced or not, gives a
\* list equal entry by entry, settledAt included.
C4_Idempotent ==
  \A pr \in CallPairs : \A t1 \in now..MaxClock : \A t2 \in t1..MaxClock :
    RepeatedCall(markBalanceAsSettled(heap, ledger, pr[1], pr[2], toISOString(t1)),
                 pr[1], pr[2], toISOString(t2))

\* a call has settled a debt and the clock has advanced since
C4_Witness ==
  /\ lastCall # NoCall
  /\ now > lastCall.at.ms
  /\ \E i \in 1..Len(ledger) :
       /\ ledger[i] # input[i]
       /\ heap[ledger[i]].settledAt = lastCall.at

\* the entry the last call was given at position i was unsettled and of
\* the call's pair
WasTarget(i) ==
  /\ inputCopy[i].from = lastCall.from
  /\ inputCopy[i].to = lastCall.to
  /\ ~inputCopy[i].isSettled

\* C5: markBalanceAsSettled returns a list of the same length and order; an
\* entry of another pair or already settled is the identical entry, an
\* unsettled entry of the pair differs only in isSettled and settledAt, and
\* the list passed in is unchanged.
C5_Frame ==
  lastCall # NoCall =>
    /\ Len(ledger) = Len(input)
    /\ Deref(heap, input) = inputCopy
    /\ \A i \in 1..Len(input) :
         IF WasTarget(i)
         THEN heap[ledger[i]] = [inputCopy[i] EXCEPT !.isSettled = TRUE,
                                                      !.settledAt = lastCall.at]
         ELSE ledger[i] = input[i] /\ heap[ledger[i]] = inputCopy[i]

\* the last call settled one entry and passed another through
C5_Witness ==
  /\ lastCall # NoCall
  /\ \E i \in 1..Len(input) : WasTarget(i) /\ ledger[i] # input[i]
  /\ \E i \in 1..Len(input) : ~WasTarget(i) /\ ledger[i] = input[i]

Occurrences(arr, ref) == Cardinality({i \in 1..Len(arr) : arr[i] = ref})

\* sub is arr with some entries left out: the entries of sub from i on are
\* found, in order, in arr from j on
RECURSIVE KeepsOrder(_, _, _, _)
KeepsOrder(sub, arr, i, j) ==
  IF i > Len(sub) THEN TRUE
  ELSE IF j > Len(arr) THEN FALSE
  ELSE IF sub[i] = arr[j] THEN KeepsOrder(sub, arr, i + 1, j + 1)
  ELSE KeepsOrder(sub, arr, i, j + 1)

Partitions(settled, unsettled, arr) ==
  /\ Len(settled) + Len(unsettled) = Len(arr)
  /\ \A i \in 1..Len(arr) :
       Occurrences(settled, arr[i]) + Occurrences(unsettled, arr[i]) = 1
  /\ \A i \in 1..Len(settled) : heap[settled[i]].isSettled
  /\ \A i \in 1..Len(unsettled) : ~heap[unsettled[i]].isSettled
  /\ KeepsOrder(settled, arr, 1, 1)
  /\ KeepsOrder(unsettled, arr, 1, 1)

\* C6: getSettledBalances and getUnsettledBalances partition the debt list by
\* isSettled: disjoint, together holding every entry exactly once, each in
\* the list's order, their lengths summing to the list's; in every state any
\* sequence of markBalanceAsSettled calls reaches.
C6_Partition ==
  Partitions(getSettledBalances(heap, ledger),
             getUnsettledBalances(heap, ledger), ledger)

\* after a call, both parts are non-empty
C6_Witness ==
  /\ lastCall # NoCall
  /\ \E i \in 1..Len(ledger) : ledger[i] # input[i]
  /\ getSettledBalances(heap, ledger) # <<>>
  /\ getUnsettledBalances(heap, ledger) # <<>>

TotalSettled == getTotalSettledAmount(heap, ledger)

TotalUnsettled == getTotalUnsettledAmount(heap, ledger)

\* the sum, in list order, of the amounts of the initial list, whose
\* objects are the first Len(ledger) of the heap
InitialTotal ==
  SumAmounts(heap, [i \in 1..Len(ledger) |-> i], 1, Zero(0))

\* the entries of the array new that differ from those of old
RECURSIVE Replaced(_, _, _)
Replaced(old, new, i) ==
  IF i > Len(new) THEN <<>>
  ELSE IF new[i] # old[i] THEN <<new[i]>> \o Replaced(old, new, i + 1)
  ELSE Replaced(old, new, i + 1)

\* getTotalSettledAmount of the list the last call was given
PreviousSettled ==
  getTotalSettledAmount(inputCopy, [i \in 1..Len(inputCopy) |-> i])

\* the sum of the amounts of the entries the last call settled
SettledByLastCall ==
  SumAmounts(heap, Replaced(input, ledger, 1), 1, Zero(0))

SameToTheCent(x, y) == FEq(parseFloat(toFixed2(x)), parseFloat(toFixed2(y)))

StorageInit ==
  /\ expenses = <<>>
  /\ EngineIdle
  /\ heap = <<>>
  /\ ledger = <<>>
  /\ LedgerIdle
  /\ now = 0
  /\ stored \in {<<>>, <<StoredExpense("e0", "new")>>}
  /\ calls = [c \in StorageCalls |-> NotCalled]

\* a call is made; it runs up to its await of getExpenses
Invoke(c) ==
  /\ calls[c].pc = "idle"
  /\ calls' = [calls EXCEPT ![c].pc = "getExpenses"]
  /\ UNCHANGED stored
  /\ UNCHANGED <<engineVars, ledgerVars>>

\* lines 340-348 and the synchronous lines after the await: the call reads
\* the stored list and changes its copy
GetExpenses(c) ==
  /\ calls[c].pc = "getExpenses"
  /\ calls' = [calls EXCEPT
                 ![c] = [pc |-> IF Saves(c, stored) THEN "saveExpenses" ELSE "done",
                         expenses |-> Changed(c, stored)]]
  /\ UNCHANGED stored
  /\ UNCHANGED <<engineVars, ledgerVars>>

\* lines 360-366: the call writes its copy back
SaveExpenses(c) ==
  /\ calls[c].pc = "saveExpenses"
  /\ stored' = calls[c].expenses
  /\ calls' = [calls EXCEPT ![c].pc = "done"]
  /\ UNCHANGED <<engineVars, ledgerVars>>

StorageNext ==
  \/ \E c \in StorageCalls : Invoke(c)
  \/ \E c \in StorageCalls : GetExpenses(c)
  \/ \E c \in StorageCalls : SaveExpenses(c)

SpecStorage == StorageInit /\ [][StorageNext]_vars

\* every call that was made has returned
Quiescent == \A c \in StorageCalls : calls[c].pc \in {"idle", "done"}

\* C17: no expense is lost by the read-modify-write operations: after any
\* interleaving of addExpense calls with each other and with deleteExpense
\* and updateExpense of other ids, all reads and writes succeeding, the
\* stored list holds every added expense that was not deleted.
C17_NoLostExpense ==
  Quiescent =>
    \A c \in StorageCalls :
      (c.op = "addExpense" /\ calls[c].pc = "done") => HasId(stored, c.id)

====
